---- MODULE Spec2Model ----
(***************************************************************************)
(* A model of the crawl engine of webscraper/scraper.py: the WebScraper    *)
(* class (visited_urls, results, scrape_page, scrape, save_results) and    *)
(* the arguments main() hands to it.  The recursion of scrape_page is an   *)
(* explicit call stack; the web (what requests.get answers for a URL) is   *)
(* the environment and is chosen when a page is fetched.                   *)
(*                                                                         *)
(* A URL string is represented by the components urlparse() splits it      *)
(* into.  A results list is represented by the bag of its elements: the    *)
(* order list(set(...)) produces is unspecified and nothing here reads it. *)
(***************************************************************************)
EXTENDS Bags, FiniteSets, Integers, Sequences, TLC

\* ---------------------------------------------------------------- bounds
\* --depth is drawn from 0..MaxDepth, --max-pages from 1..MaxPages, and a
\* page carries at most MaxLinks anchors.
MaxDepth == 3
MaxPages == 3
MaxLinks == 2

\* ------------------------------------------------------------------ URLs
Url(s, n, p) == [scheme |-> s, netloc |-> n, path |-> p]

Root == Url("http", "h", "/")
PageA == Url("http", "h", "/a")
PageB == Url("http", "h", "/b")
FtpRoot == Url("ftp", "h", "/")
NoHost == Url("http", "", "")
\* "http://[" : urlparse raises ValueError (Invalid IPv6 URL)
Malformed == Url("http", "[", "")

\* The start URLs main() may be given.
Seeds == {Root, FtpRoot, NoHost, Malformed}

\* The href attributes a page may carry: two host-relative paths ("/a",
\* "/b"), an absolute ftp URL and a malformed one.
Hrefs == {Url("", "", "/a"), Url("", "", "/b"), Url("ftp", "h", "/a"), Malformed}

\* urlparse raises on an unbalanced bracket in the host part.
urlparse_raises(url) == url.netloc = "["

\* A variant of is_valid_url that tests the host alone.
is_valid_url_NoSchemeCheck(url) ==
    IF urlparse_raises(url) THEN FALSE ELSE url.netloc # ""

\* is_valid_url: True iff the scheme is http or https and the netloc is
\* non-empty; any exception of urlparse gives False.
is_valid_url(url) ==
    IF urlparse_raises(url)
    THEN FALSE
    ELSE url.scheme \in {"http", "https"} /\ url.netloc # ""

\* urljoin(base, href) raises where urlparse does.
urljoin_raises(base, href) == urlparse_raises(base) \/ urlparse_raises(href)

\* urljoin(base, href): an href with a scheme of its own and a host stands
\* as it is; one without a host takes the base's host; one without a scheme
\* takes the base's scheme.
urljoin(base, href) ==
    IF href.scheme # "" /\ href.scheme # base.scheme
    THEN href
    ELSE IF href.netloc # ""
         THEN Url(base.scheme, href.netloc, href.path)
         ELSE Url(base.scheme, base.netloc, href.path)

\* ------------------------------------------------------------ page texts
\* A page text is a sequence of words separated by blanks.  Each pattern is
\* given by the substrings re.findall returns for a word; in the texts below
\* no match spans two words.
EmailMatches(w) == IF w = "a@b.com" THEN {"a@b.com"} ELSE {}
PhoneMatches(w) == IF w = "(555) 123-4567" THEN {"(555) 123-4567"} ELSE {}
\* The twitter and instagram patterns match "@" and the word characters after
\* it, also inside an e-mail address.
SocialMatches(w) ==
    IF w = "@acme" THEN {"@acme"} ELSE IF w = "a@b.com" THEN {"@b"} ELSE {}
DateMatches(w) == IF w = "2024-01-01" THEN {"2024-01-01"} ELSE {}
AddressMatches(w) ==
    IF w = "1 Main St, Town, NY 10001" THEN {"1 Main St, Town, NY 10001"} ELSE {}
PriceMatches(w) == IF w = "$9.99" THEN {"$9.99"} ELSE {}

\* The texts a page may have.
Texts == { <<"hello">>,
           <<"1 Main St, Town, NY 10001", "a@b.com", "(555) 123-4567", "@acme",
             "a@b.com", "2024-01-01", "$9.99">> }

\* The words of a text.
Words(text) == {text[i] : i \in 1..Len(text)}

\* list(set(re.findall(pattern, text))).  extract_social_media also keeps the
\* hrefs that name a platform; no href of Hrefs does.
extract_emails(text) == SetToBag(UNION {EmailMatches(w) : w \in Words(text)})
extract_phone_numbers(text) == SetToBag(UNION {PhoneMatches(w) : w \in Words(text)})
extract_social_media(text) == SetToBag(UNION {SocialMatches(w) : w \in Words(text)})
extract_dates(text) == SetToBag(UNION {DateMatches(w) : w \in Words(text)})
extract_addresses(text) == SetToBag(UNION {AddressMatches(w) : w \in Words(text)})
extract_prices(text) == SetToBag(UNION {PriceMatches(w) : w \in Words(text)})

Categories == {"emails", "phone_numbers", "social_media", "urls", "dates",
               "addresses", "prices"}

\* The link lists a page may carry.
LinkLists == UNION {[1..n -> Hrefs] : n \in 0..MaxLinks}

\* A wider site of four pages.  Its anchors are all well-formed links to
\* pages of the site ("/a", "/b", "/c"); a page lists its links in this
\* order and none twice, and the pages have one text.
PageC == Url("http", "h", "/c")
WidePages == {Root, PageA, PageB, PageC}
WideHrefs == <<Url("", "", "/a"), Url("", "", "/b"), Url("", "", "/c")>>
WideTexts == { <<"hello">> }
WideLinkLists ==
    {[i \in 1..Len(l) |-> WideHrefs[l[i]]] :
        l \in {m \in UNION {[1..n -> 1..Len(WideHrefs)] : n \in 0..MaxLinks} :
                 \A i, j \in 1..Len(m) : i < j => m[i] < m[j]}}

\* The link lists of the pages served to an object that is used for two
\* scrape() calls: the hrefs of Hrefs in one order, none twice.
AgainHrefs ==
    <<Url("", "", "/a"), Url("", "", "/b"), Url("ftp", "h", "/a"), Malformed>>
AgainLinkLists ==
    {[i \in 1..Len(l) |-> AgainHrefs[l[i]]] :
        l \in {m \in UNION {[1..n -> 1..Len(AgainHrefs)] : n \in 0..MaxLinks} :
                 \A i, j \in 1..Len(m) : i < j => m[i] < m[j]}}

\* ----------------------------------------------------------------- state
VARIABLES
    max_depth,      \* WebScraper.max_depth
    max_pages,      \* WebScraper.max_pages
    respect_robots, \* args.respect_robots of main()
    visited_urls,   \* WebScraper.visited_urls
    results,        \* WebScraper.results: category -> bag of values
    stack,          \* the active scrape_page calls, innermost last
    pc,             \* "start", "crawling", "returned" or "raised"
    start_url,      \* the argument of scrape()
    saved,          \* the output file: [status, content]
    fetchLog,       \* history: the requests.get calls, [url, depth], in order
    failed,         \* history: the URLs whose fetch raised
    discovered,     \* history: the valid resolved links of the fetched pages
    edges,          \* history, kept by SpecWide alone: <<page, target>> for
                    \* every anchor of a fetched page that urljoin resolves
    first           \* history: what the first scrape() call on the object
                    \* left, taken when the second is made

vars == <<max_depth, max_pages, respect_robots, visited_urls, results, stack,
          pc, start_url, saved, fetchLog, failed, discovered, edges, first>>

config == <<max_depth, max_pages, respect_robots>>
history == <<fetchLog, failed, discovered, edges, first>>

\* One scrape() call has been made on the object, or none.
NoFirst ==
    [calls |-> 1, seed |-> NoHost, fetches |-> 0, visited |-> {},
     results |-> [c \in Categories |-> EmptyBag]]

\* The output file before save_results: nothing written.
NotSaved == [status |-> "none", content |-> [c \in Categories |-> EmptyBag]]

\* WebScraper.__init__, called by main() with args.depth and args.max_pages.
Construct ==
    /\ max_depth \in 0..MaxDepth
    /\ max_pages \in 1..MaxPages
    /\ visited_urls = {}
    /\ results = [c \in Categories |-> EmptyBag]
    /\ stack = <<>>
    /\ pc = "start"
    /\ start_url = NoHost
    /\ saved = NotSaved
    /\ fetchLog = <<>>
    /\ failed = {}
    /\ discovered = {}
    /\ edges = {}
    /\ first = NoFirst

\* main() without --respect-robots (the flag is a store_true, False by default).
Init == Construct /\ respect_robots = FALSE

\* main() with or without --respect-robots.
InitRobots == Construct /\ respect_robots \in BOOLEAN

\* main() on the wider site, --max-pages up to one more than its pages.
InitWide ==
    /\ max_depth \in 0..MaxDepth
    /\ max_pages \in 1..(Cardinality(WidePages) + 1)
    /\ respect_robots = FALSE
    /\ visited_urls = {}
    /\ results = [c \in Categories |-> EmptyBag]
    /\ stack = <<>>
    /\ pc = "start"
    /\ start_url = NoHost
    /\ saved = NotSaved
    /\ fetchLog = <<>>
    /\ failed = {}
    /\ discovered = {}
    /\ edges = {}
    /\ first = NoFirst

\* The robots.txt policy of the site: "Disallow: /b".
allowed(url) == url.path # "/b"

Frame(url, depth, at, links) ==
    [url |-> url, depth |-> depth, at |-> at, links |-> links]

Top == stack[Len(stack)]
Pop == SubSeq(stack, 1, Len(stack) - 1)
ReplaceTop(f) == [stack EXCEPT ![Len(stack)] = f]

\* scrape(): self.scrape_page(start_url)
Scrape ==
    /\ pc = "start"
    /\ \E u \in Seeds :
        /\ start_url' = u
        /\ stack' = <<Frame(u, 0, "call", <<>>)>>
    /\ pc' = "crawling"
    /\ UNCHANGED <<config, visited_urls, results, saved, history>>

\* The seeds of a second scrape() call on the same object.
AgainSeeds == {Root, PageA, PageB}

\* A variant of ScrapeAgain on an object whose scrape() starts afresh.
ScrapeAgain_Resets ==
    /\ pc \in {"returned", "raised"}
    /\ first.calls = 1
    /\ \E u \in AgainSeeds :
        /\ start_url' = u
        /\ stack' = <<Frame(u, 0, "call", <<>>)>>
    /\ pc' = "crawling"
    /\ visited_urls' = {}
    /\ results' = [c \in Categories |-> EmptyBag]
    /\ first' = [calls |-> 2, seed |-> start_url, fetches |-> Len(fetchLog),
                 visited |-> visited_urls, results |-> results]
    /\ UNCHANGED <<config, saved, fetchLog, failed, discovered, edges>>

\* scrape() called a second time on the same WebScraper, after the first
\* call has returned or raised: self.scrape_page(start_url) with
\* visited_urls and results as the first call left them.
ScrapeAgain ==
    /\ pc \in {"returned", "raised"}
    /\ first.calls = 1
    /\ \E u \in AgainSeeds :
        /\ start_url' = u
        /\ stack' = <<Frame(u, 0, "call", <<>>)>>
    /\ pc' = "crawling"
    /\ first' = [calls |-> 2, seed |-> start_url, fetches |-> Len(fetchLog),
                 visited |-> visited_urls, results |-> results]
    /\ UNCHANGED <<config, visited_urls, results, saved, fetchLog, failed,
                   discovered, edges>>

\* A variant of the guard without the visited test.
Skips_NoVisitedCheck(url, depth) ==
    \/ ~is_valid_url(url)
    \/ depth >= max_depth

\* A variant of the guard that lets depth = max_depth through.
Skips_DepthOffByOne(url, depth) ==
    \/ ~is_valid_url(url)
    \/ depth > max_depth
    \/ url \in visited_urls

\* The guard of scrape_page.
Skips(url, depth) ==
    \/ ~is_valid_url(url)
    \/ depth >= max_depth
    \/ url \in visited_urls

\* scrape_page: the guard holds and the call returns at once.
SkipPage ==
    /\ pc = "crawling"
    /\ stack # <<>>
    /\ Top.at = "call"
    /\ Skips(Top.url, Top.depth)
    /\ stack' = Pop
    /\ UNCHANGED <<config, visited_urls, results, pc, start_url, saved, history>>

\* A variant of FetchFail without the except clause: the exception leaves
\* scrape_page and every caller.
FetchFail_Propagates ==
    /\ pc = "crawling"
    /\ stack # <<>>
    /\ Top.at = "call"
    /\ ~Skips(Top.url, Top.depth)
    /\ visited_urls' = visited_urls \cup {Top.url}
    /\ fetchLog' = Append(fetchLog, [url |-> Top.url, depth |-> Top.depth])
    /\ failed' = failed \cup {Top.url}
    /\ stack' = <<>>
    /\ pc' = "raised"
    /\ UNCHANGED <<config, results, start_url, saved, discovered, edges, first>>

\* scrape_page: the URL is marked visited, requests.get or raise_for_status
\* raises, and the except clause logs it and the call returns.
FetchFail ==
    /\ pc = "crawling"
    /\ stack # <<>>
    /\ Top.at = "call"
    /\ ~Skips(Top.url, Top.depth)
    /\ visited_urls' = visited_urls \cup {Top.url}
    /\ fetchLog' = Append(fetchLog, [url |-> Top.url, depth |-> Top.depth])
    /\ failed' = failed \cup {Top.url}
    /\ stack' = Pop
    /\ UNCHANGED <<config, results, pc, start_url, saved, discovered, edges, first>>

\* self.results[key].extend(...) for the six extracted categories.
Extend(res, text) ==
    [res EXCEPT !["emails"] = @ (+) extract_emails(text),
                !["phone_numbers"] = @ (+) extract_phone_numbers(text),
                !["social_media"] = @ (+) extract_social_media(text),
                !["dates"] = @ (+) extract_dates(text),
                !["addresses"] = @ (+) extract_addresses(text),
                !["prices"] = @ (+) extract_prices(text)]

\* A variant of RemoveDuplicates that keeps only the categories that hold a
\* value.
RemoveDuplicates_DropsEmpty(res) ==
    [c \in {k \in DOMAIN res : res[k] # EmptyBag} |-> SetToBag(BagToSet(res[c]))]

\* A variant of RemoveDuplicates that starts the urls list afresh.
RemoveDuplicates_ClearsUrls(res) ==
    [c \in DOMAIN res |->
        IF c = "urls" THEN EmptyBag ELSE SetToBag(BagToSet(res[c]))]

\* for key in self.results: self.results[key] = list(set(self.results[key]))
RemoveDuplicates(res) == [c \in DOMAIN res |-> SetToBag(BagToSet(res[c]))]

\* A variant of FollowsLinks that still reads the links when the page count
\* has reached max_pages.
FollowsLinks_PageCountOffByOne(depth, visited) ==
    depth < max_depth /\ Cardinality(visited) <= max_pages

\* The condition under which the links of a fetched page are read.
FollowsLinks(depth, visited) ==
    depth < max_depth /\ Cardinality(visited) < max_pages

\* The valid absolute URLs the anchors of a page resolve to.
ResolvedLinks(url, links) ==
    {urljoin(url, links[i]) :
        i \in {j \in 1..Len(links) :
                 /\ ~urljoin_raises(url, links[j])
                 /\ is_valid_url(urljoin(url, links[j]))}}

\* The URLs the anchors of a page resolve to, valid or not.
AnchorTargets(url, links) ==
    {urljoin(url, links[i]) :
        i \in {j \in 1..Len(links) : ~urljoin_raises(url, links[j])}}

\* scrape_page: the URL is marked visited, the fetch succeeds, the text is
\* extracted into results, duplicates are removed, and the link loop is
\* entered when the depth and the page count allow it.  The page comes with
\* one of the given texts and link lists; traced says whether the edges
\* history is kept.
FetchOkWith(texts, lists, traced) ==
    /\ pc = "crawling"
    /\ stack # <<>>
    /\ Top.at = "call"
    /\ ~Skips(Top.url, Top.depth)
    /\ \E text \in texts, links \in lists :
        /\ visited_urls' = visited_urls \cup {Top.url}
        /\ fetchLog' = Append(fetchLog, [url |-> Top.url, depth |-> Top.depth])
        /\ results' = RemoveDuplicates(Extend(results, text))
        /\ discovered' = discovered \cup ResolvedLinks(Top.url, links)
        /\ edges' = IF traced
                     THEN edges \cup {<<Top.url, t>> : t \in AnchorTargets(Top.url, links)}
                     ELSE edges
        /\ IF FollowsLinks(Top.depth, visited_urls')
           THEN stack' = ReplaceTop(Frame(Top.url, Top.depth, "loop", links))
           ELSE stack' = Pop
    /\ UNCHANGED <<config, pc, start_url, saved, failed, first>>

\* scrape_page fetching a page of the site of Spec.
FetchOk == FetchOkWith(Texts, LinkLists, FALSE)

\* scrape_page fetching a page served to the object of SpecAgain.
FetchOkAgain == FetchOkWith(Texts, AgainLinkLists, FALSE)

\* scrape_page fetching a page of the wider site of SpecWide.
FetchOkWide == FetchOkWith(WideTexts, WideLinkLists, TRUE)

InLoop ==
    /\ pc = "crawling"
    /\ stack # <<>>
    /\ Top.at = "loop"

Advance == Frame(Top.url, Top.depth, "loop", Tail(Top.links))

\* The link loop: urljoin raises on the href; the except clause of the call
\* logs it and the call returns, the rest of the links unread.
LinkRaises ==
    /\ InLoop
    /\ Top.links # <<>>
    /\ urljoin_raises(Top.url, Head(Top.links))
    /\ stack' = Pop
    /\ UNCHANGED <<config, visited_urls, results, pc, start_url, saved, history>>

\* The link loop: the resolved URL is not valid and is passed over.
LinkInvalid ==
    /\ InLoop
    /\ Top.links # <<>>
    /\ ~urljoin_raises(Top.url, Head(Top.links))
    /\ ~is_valid_url(urljoin(Top.url, Head(Top.links)))
    /\ stack' = ReplaceTop(Advance)
    /\ UNCHANGED <<config, visited_urls, results, pc, start_url, saved, history>>

\* A variant of LinkFollow that defers the call: it is put behind every
\* active call instead of being made at once.
LinkFollow_Deferred ==
    /\ InLoop
    /\ Top.links # <<>>
    /\ ~urljoin_raises(Top.url, Head(Top.links))
    /\ LET next_url == urljoin(Top.url, Head(Top.links)) IN
        /\ is_valid_url(next_url)
        /\ results' = [results EXCEPT !["urls"] = @ (+) SetToBag({next_url})]
        /\ stack' = <<Frame(next_url, Top.depth + 1, "call", <<>>)>>
                        \o ReplaceTop(Advance)
    /\ UNCHANGED <<config, visited_urls, pc, start_url, saved, history>>

\* The link loop: the resolved URL is valid, is appended to results['urls']
\* and scrape_page is called on it one level deeper.
LinkFollow ==
    /\ InLoop
    /\ Top.links # <<>>
    /\ ~urljoin_raises(Top.url, Head(Top.links))
    /\ LET next_url == urljoin(Top.url, Head(Top.links)) IN
        /\ is_valid_url(next_url)
        /\ results' = [results EXCEPT !["urls"] = @ (+) SetToBag({next_url})]
        /\ stack' = Append(ReplaceTop(Advance),
                           Frame(next_url, Top.depth + 1, "call", <<>>))
    /\ UNCHANGED <<config, visited_urls, pc, start_url, saved, history>>

\* The link loop ends and the call returns.
LoopEnd ==
    /\ InLoop
    /\ Top.links = <<>>
    /\ stack' = Pop
    /\ UNCHANGED <<config, visited_urls, results, pc, start_url, saved, history>>

\* scrape() without an output file: scrape_page has returned and the results
\* are returned.  (The output_file argument is read only at this point, so
\* the three ways scrape() ends are chosen between here.)
ReturnResults ==
    /\ pc = "crawling"
    /\ stack = <<>>
    /\ pc' = "returned"
    /\ UNCHANGED <<config, visited_urls, results, stack, start_url, saved, history>>

\* scrape() with an output file: save_results writes the results and scrape
\* returns them.
SaveResults ==
    /\ pc = "crawling"
    /\ stack = <<>>
    /\ saved' = [status |-> "written", content |-> results]
    /\ pc' = "returned"
    /\ UNCHANGED <<config, visited_urls, results, stack, start_url, history>>

\* A variant of SaveFails that treats the failure as scrape_page treats a
\* page failure: scrape() returns the results.
SaveFails_Swallowed ==
    /\ pc = "crawling"
    /\ stack = <<>>
    /\ saved' = [saved EXCEPT !.status = "failed"]
    /\ pc' = "returned"
    /\ UNCHANGED <<config, visited_urls, results, stack, start_url, history>>

\* scrape() with an output file: mkdir or open raises in save_results and
\* the exception leaves scrape(), which has no try around the call.
SaveFails ==
    /\ pc = "crawling"
    /\ stack = <<>>
    /\ saved' = [saved EXCEPT !.status = "failed"]
    /\ pc' = "raised"
    /\ UNCHANGED <<config, visited_urls, results, stack, start_url, history>>

Next ==
    \/ Scrape
    \/ SkipPage
    \/ FetchFail
    \/ FetchOk
    \/ LinkRaises
    \/ LinkInvalid
    \/ LinkFollow
    \/ LoopEnd
    \/ ReturnResults
    \/ SaveResults
    \/ SaveFails

Spec == Init /\ [][Next]_vars

SpecRobots == InitRobots /\ [][Next]_vars

\* The crawl of the wider site; none of its anchors is malformed or invalid.
NextWide ==
    \/ Scrape
    \/ SkipPage
    \/ FetchFail
    \/ FetchOkWide
    \/ LinkFollow
    \/ LoopEnd
    \/ ReturnResults
    \/ SaveResults
    \/ SaveFails

SpecWide == InitWide /\ [][NextWide]_vars

\* Two scrape() calls on one WebScraper.
NextAgain ==
    \/ Scrape
    \/ SkipPage
    \/ FetchFail
    \/ FetchOkAgain
    \/ LinkRaises
    \/ LinkInvalid
    \/ LinkFollow
    \/ LoopEnd
    \/ ReturnResults
    \/ SaveResults
    \/ SaveFails
    \/ ScrapeAgain

SpecAgain == Init /\ [][NextAgain]_vars

\* The crawl under a scheduler that lets the program run: a step that can be
\* taken is taken (the code has no blocking wait; requests.get has a timeout).
SpecFair == Spec /\ WF_vars(Next)

\* The same scheduler for the crawl of the wider site.
SpecWideFair == SpecWide /\ WF_vars(NextWide)

\* ---------------------------------------------------------------- claims
FetchedUrls == {fetchLog[i].url : i \in 1..Len(fetchLog)}
Empty(res) == \A c \in Categories : res[c] = EmptyBag
RecordedUrls == BagToSet(results["urls"])
Ended == pc \in {"returned", "raised"}

\* C1: the number of URLs in visited_urls is at most max_pages at every
\* point of a crawl.
C1_VisitedWithinMaxPages == Cardinality(visited_urls) <= max_pages

\* C2: no URL is fetched twice: the number of fetches equals the cardinality
\* of visited_urls, the fetched URLs are the visited ones, and no URL occurs
\* twice in the order of fetches.
C2_NoUrlFetchedTwice ==
    /\ Len(fetchLog) = Cardinality(visited_urls)
    /\ FetchedUrls = visited_urls
    /\ \A i, j \in 1..Len(fetchLog) :
        fetchLog[i].url = fetchLog[j].url => i = j

\* C2 witness: a crawl has ended in which a link to an already fetched URL
\* was met again (the URL sits twice in results['urls'] since the last
\* removal of duplicates) and was not fetched again.
C2_Witness ==
    /\ pc = "returned"
    /\ \E u \in visited_urls : CopiesIn(u, results["urls"]) >= 2

C4_MaxDepthZeroFetchesSeed ==
    (Ended /\ max_depth = 0 /\ is_valid_url(start_url)) =>
        fetchLog = <<[url |-> start_url, depth |-> 0]>>

\* C5: when the crawl ends, every valid resolved link of every successfully
\* fetched page is in results['urls'].
C5_AllLinksRecorded == Ended => discovered \subseteq RecordedUrls

\* C6: with max_pages = 1, max_depth >= 1 and a valid seed there is never
\* more than one fetch, and once scrape_page has returned there has been
\* exactly one, that of the seed.
C6_MaxPagesOneFetchesSeedOnly ==
    (pc # "start" /\ max_pages = 1 /\ max_depth >= 1 /\ is_valid_url(start_url)) =>
        /\ Len(fetchLog) <= 1
        /\ stack = <<>> => fetchLog = <<[url |-> start_url, depth |-> 0]>>

\* C6 witness: a crawl with max_pages = 1 has ended whose seed page was
\* fetched successfully and links to two other pages.
C6_Witness ==
    /\ pc = "returned"
    /\ max_pages = 1
    /\ max_depth >= 1
    /\ failed = {}
    /\ discovered = {PageA, PageB}

\* A URL whose scheme is not http or https, or whose host is empty.
BadSchemeOrHost(url) == url.scheme \notin {"http", "https"} \/ url.netloc = ""

\* C7: with a seed whose scheme is not http(s) or whose host is empty, the
\* seed fails the validity check and the crawl makes no fetch,
\* visits nothing and leaves all seven categories empty: the one call of
\* scrape_page is the seed's, and it returns at once at its guard.
C7_InvalidSeedEmptyCrawl ==
    (pc # "start" /\ BadSchemeOrHost(start_url)) =>
        /\ ~is_valid_url(start_url)
        /\ fetchLog = <<>>
        /\ visited_urls = {}
        /\ DOMAIN results = Categories
        /\ Empty(results)
        /\ Len(stack) <= 1
        /\ stack # <<>> => Top.at = "call" /\ Skips(Top.url, Top.depth)

\* C7 witness: scrape() has returned for a seed with the scheme ftp.
C7_Witness == pc = "returned" /\ start_url = FtpRoot

\* C8: a fetch failure changes nothing in results, leaves scrape() running
\* and returns to the calling scrape_page, whose remaining links are kept as
\* they were; and while the seed's fetch has failed all categories are empty.
C8_FetchFailureNotFatal ==
    /\ [][failed' # failed =>
            /\ results' = results
            /\ pc' = "crawling"
            /\ stack' = SubSeq(stack, 1, Len(stack) - 1)]_vars
    /\ [](start_url \in failed => Empty(results) /\ Len(fetchLog) = 1)

\* C8 witness: the fetch of the first link of the seed page failed and the
\* link after it on the seed page was fetched.
C8_Witness ==
    /\ Len(fetchLog) = 3
    /\ fetchLog[2].depth = 1
    /\ fetchLog[2].url \in failed
    /\ fetchLog[3].depth = 1

\* C9: at the end of a crawl no category holds the same value twice.
C9_ResultsDeduplicated ==
    Ended => \A c \in Categories :
                \A v \in BagToSet(results[c]) : CopiesIn(v, results[c]) = 1

\* C10: with --respect-robots no URL the robots policy disallows is fetched.
C10_RobotsRespected ==
    respect_robots => \A u \in FetchedUrls : allowed(u)

\* C11: a failure to write the output file leaves scrape() as an exception
\* (it is not swallowed as a page failure is: after it scrape() has raised,
\* not returned), and the failing save leaves results as they were.
C11_SaveFailurePropagates ==
    /\ [][saved'.status = "failed" /\ saved.status # "failed" =>
            /\ results' = results
            /\ visited_urls' = visited_urls
            /\ pc' = "raised"]_vars
    /\ [](saved.status = "failed" => pc = "raised")

\* C11 witness: the write failed after a crawl that had collected values and
\* had swallowed a page failure.
C11_Witness ==
    /\ saved.status = "failed"
    /\ pc = "raised"
    /\ failed # {}
    /\ ~Empty(results)

\* The strings of a category: URL strings, given by their components, under
\* urls, and matched substrings under the other six.
StrOf(c) ==
    IF c = "urls" THEN [scheme : STRING, netloc : STRING, path : STRING] ELSE STRING

\* C12: in every reachable state, page failures included, results has exactly
\* the seven keys emails, phone_numbers, social_media, dates, addresses,
\* prices and urls, and every value is a list (a bag) of strings.
C12_SevenKeys ==
    /\ DOMAIN results = {"emails", "phone_numbers", "social_media", "dates",
                         "addresses", "prices", "urls"}
    /\ Cardinality(DOMAIN results) = 7
    /\ \A c \in DOMAIN results :
        /\ IsABag(results[c])
        /\ \A v \in BagToSet(results[c]) : v \in StrOf(c)

\* C12 witness: a crawl has returned after a page failure with values under
\* urls and under each of the six extracted categories.
C12_Witness ==
    /\ pc = "returned"
    /\ failed # {}
    /\ \A c \in Categories : results[c] # EmptyBag

\* b was fetched after a was.
FetchedAfter(b, a) ==
    \E i, j \in 1..Len(fetchLog) :
        i < j /\ fetchLog[i].url = a /\ fetchLog[j].url = b

\* C13 (as stated): for two links a and b of a page with a before b, every
\* fetch caused by expanding a happens before the fetch of b.  At a fetch,
\* every active call below the fetching one is expanding a link a of its
\* page (the URL of the call above it); no link b that is still to come on
\* that page has been fetched since a was.
C13_DepthFirst ==
    [][fetchLog' # fetchLog =>
        \A i \in 1..(Len(stack) - 1) :
            \A k \in 1..Len(stack[i].links) :
                ~FetchedAfter(urljoin(stack[i].url, stack[i].links[k]),
                              stack[i + 1].url)]_vars

\* C13 (amended): the active calls form one chain from the seed, each made
\* by the link loop of the one below it; every fetch made since a page was
\* fetched and before its call returns is made inside the expansion of its
\* links, and a link b still to come on the page has not been fetched as
\* that page's link: if b was fetched since, it was deeper, inside the
\* expansion of a link before it.  So every fetch caused by expanding a
\* happens before scrape_page is called for b.
C13_DepthFirstAmended ==
    /\ stack # <<>> => stack[1].depth = 0
    /\ \A i \in 1..(Len(stack) - 1) :
        /\ stack[i].at = "loop"
        /\ stack[i + 1].depth = stack[i].depth + 1
    /\ \A i \in 1..Len(stack) :
        stack[i].at = "loop" =>
            /\ \E p \in 1..Len(fetchLog) : fetchLog[p].url = stack[i].url
            /\ \A p, j \in 1..Len(fetchLog) :
                (fetchLog[p].url = stack[i].url /\ p < j) =>
                    /\ fetchLog[p].depth = stack[i].depth
                    /\ fetchLog[j].depth > stack[i].depth
                    /\ \A k \in 1..Len(stack[i].links) :
                        fetchLog[j].url = urljoin(stack[i].url, stack[i].links[k])
                            => fetchLog[j].depth > stack[i].depth + 1

\* C13 witness: the seed page links to a and b, a links to b and c; b and
\* then c were fetched inside the expansion of a, and the seed's link b was
\* reached afterwards and not fetched again.
C13_Witness ==
    /\ pc = "returned"
    /\ Len(fetchLog) = 4
    /\ [i \in 1..4 |-> fetchLog[i].depth] = <<0, 1, 2, 2>>
    /\ CopiesIn(fetchLog[3].url, results["urls"]) = 2

\* The distinct valid URLs of the link graph seen so far.
ValidUrlsSeen == {u \in {start_url} \cup discovered : is_valid_url(u)}

\* C14: every crawl terminates; the active calls are nested by depth from 0
\* and none is deeper than max_depth (a call that gets past its guard is
\* less deep than max_depth); and the number of fetches is at most the number
\* of distinct valid URLs of the link graph.
C14_Terminates ==
    /\ <>Ended
    /\ [](/\ \A i \in 1..Len(stack) :
              /\ stack[i].depth = i - 1
              /\ stack[i].depth <= max_depth
              /\ stack[i].at = "loop" => stack[i].depth < max_depth
          /\ Len(fetchLog) <= Cardinality(ValidUrlsSeen))

\* C14 witness: a crawl has ended on a graph with a self-link (a to a) and
\* a cycle (a to b to a), three calls deep, every URL of the graph fetched.
C14_Witness ==
    /\ Ended
    /\ {<<PageA, PageA>>, <<PageA, PageB>>, <<PageB, PageA>>} \subseteq edges
    /\ fetchLog[Len(fetchLog)].depth = 2
    /\ Len(fetchLog) = Cardinality(ValidUrlsSeen)

\* C15: when resolving an href fails, that href alone is dropped: with a
\* valid link right after it on the page, the loop of the page goes on to
\* that link.
C15_MalformedHrefDroppedAlone ==
    [][(/\ InLoop
        /\ Len(Top.links) >= 2
        /\ urljoin_raises(Top.url, Top.links[1])
        /\ ~urljoin_raises(Top.url, Top.links[2])
        /\ is_valid_url(urljoin(Top.url, Top.links[2])))
        => stack' = ReplaceTop(Advance)]_vars

\* C16: every URL in visited_urls and every URL in results['urls'] passes
\* the validity check: it can be parsed, its scheme is http or https and its
\* host is not empty.
C16_OnlyValidUrls ==
    \A u \in visited_urls \cup RecordedUrls :
        /\ ~urlparse_raises(u)
        /\ u.scheme \in {"http", "https"}
        /\ u.netloc # ""

\* C16 witness: the seed page links to /a and then to ftp://h/a; /a has been
\* recorded and fetched, and the loop of the seed page is at the ftp link.
C16_Witness ==
    /\ InLoop
    /\ Len(stack) = 1
    /\ Top.links = <<Url("ftp", "h", "/a")>>
    /\ RecordedUrls = {PageA}
    /\ visited_urls = {Root, PageA}

\* The URLs at most n link hops from the seed in the link graph.
RECURSIVE WithinHops(_)
WithinHops(n) ==
    IF n < 0 THEN {}
    ELSE IF n = 0 THEN {start_url}
    ELSE WithinHops(n - 1) \cup {e[2] : e \in {f \in edges : f[1] \in WithinHops(n - 1)}}

\* The pages reachable from the seed.
Reachable == WithinHops(Cardinality(WidePages))

\* C17: when every fetch has succeeded and max_pages is larger than the
\* number of reachable pages, a finished crawl has fetched every URL whose
\* shortest link distance from the seed is less than max_depth.
C17_CompleteWithinDepth ==
    (/\ Ended
     /\ start_url = Root
     /\ failed = {}
     /\ max_pages > Cardinality(Reachable)) =>
        WithinHops(max_depth - 1) \subseteq FetchedUrls

\* C18: every URL in visited_urls other than the seed is in results['urls'].
C18_VisitedAreRecorded == visited_urls \ {start_url} \subseteq RecordedUrls

\* C18 witness: a crawl has returned that fetched two pages below the seed,
\* the second of them after the removal of duplicates of the first.
C18_Witness ==
    /\ pc = "returned"
    /\ Len(fetchLog) = 3
    /\ failed = {}
    /\ visited_urls \ {start_url} = RecordedUrls

\* C19: visited_urls and results are not reset by a second scrape() call:
\* the second call fetches no URL the first call visited, it makes no fetch
\* at all when its seed is the first call's seed, and every value the first
\* call collected is in results during and after the second.
C19_NoResetBetweenCrawls ==
    first.calls = 2 =>
        /\ first.visited \subseteq visited_urls
        /\ \A j \in (first.fetches + 1)..Len(fetchLog) :
            fetchLog[j].url \notin first.visited
        /\ start_url = first.seed => Len(fetchLog) = first.fetches
        /\ \A c \in Categories :
            BagToSet(first.results[c]) \subseteq BagToSet(results[c])

\* C19 witness: a second scrape() of the same seed has returned; the first
\* call had fetched two pages and collected values in every category.
C19_Witness ==
    /\ first.calls = 2
    /\ pc = "returned"
    /\ start_url = first.seed
    /\ first.fetches >= 2
    /\ \A c \in Categories : first.results[c] # EmptyBag

====
